---- MODULE Spec2Model ----
(***************************************************************************)
(* NovaSynth-AI: the interactive molecule viewer (2D view with PubChem     *)
(* fetch, source resolver and pan/zoom transform) and the three analysis   *)
(* components (image, text, comparison) with the session history.          *)
(***************************************************************************)
EXTENDS Integers, Sequences, FiniteSets, TLC

\* ------------------------------------------------------------------------
\* Bounds of the model
\* ------------------------------------------------------------------------
\* number of structure fetches issued in one behaviour
MaxFetches == 3
\* number of scale-changing gestures (zoom-in, zoom-out, wheel)
MaxScaleOps == 3
\* number of drag gestures (mouse-down)
MaxPanOps == 2

\* ------------------------------------------------------------------------
\* Exact rational arithmetic for the scale factor k (a pair <<num, den>>)
\* ------------------------------------------------------------------------
Abs(n) == IF n < 0 THEN -n ELSE n

RECURSIVE GCD(_, _)
GCD(a, b) == IF b = 0 THEN a ELSE GCD(b, a % b)

Norm(n, d) == LET g == GCD(Abs(n), d) IN <<n \div g, d \div g>>

RMul(a, b) == Norm(a[1] * b[1], a[2] * b[2])
RDiv(a, b) == Norm(a[1] * b[2], a[2] * b[1])
RAdd(a, b) == Norm(a[1] * b[2] + b[1] * a[2], a[2] * b[2])
RLeq(a, b) == a[1] * b[2] <= b[1] * a[2]
RMin(a, b) == IF RLeq(a, b) THEN a ELSE b
RMax(a, b) == IF RLeq(a, b) THEN b ELSE a

\* ------------------------------------------------------------------------
\* Viewer constants (InteractiveMoleculeViewer.tsx)
\* ------------------------------------------------------------------------
ZoomStep == <<6, 5>>          \* 1.2
ScaleMin == <<1, 2>>          \* 0.5
ScaleMax == <<5, 1>>          \* 5
WheelFactor == <<1, 1000>>    \* 0.001
ProjectionFactor == 20
IdentityTransform == [k |-> <<1, 1>>, x |-> 0, y |-> 0]
ZeroPan == [x |-> 0, y |-> 0]

\* Atomic number -> element symbol, 'X' for numbers not in the table
ATOMIC_NUMBER_MAP(z) ==
    CASE z = 1 -> "H" [] z = 6 -> "C" [] z = 7 -> "N" [] z = 8 -> "O"
      [] z = 9 -> "F" [] z = 15 -> "P" [] z = 16 -> "S" [] z = 17 -> "Cl"
      [] OTHER -> "X"

\* ------------------------------------------------------------------------
\* Data: 2D layouts, structures handed to the viewer, PubChem responses
\* ------------------------------------------------------------------------
\* an absent (null / undefined) 2D layout
NoLayout == [present |-> FALSE, atoms |-> <<>>, bonds |-> <<>>]

ModelLayout ==
    [present |-> TRUE,
     atoms |-> << [id |-> 0, element |-> "C", x |-> 10, y |-> 10],
                  [id |-> 1, element |-> "O", x |-> 30, y |-> 10] >>,
     bonds |-> << [from |-> 0, to |-> 1, order |-> 2] >>]

EmptyLayout == [present |-> TRUE, atoms |-> <<>>, bonds |-> <<>>]

Atoms3D == << [element |-> "C", x |-> 1, y |-> 2, z |-> 0],
              [element |-> "N", x |-> -1, y |-> 0, z |-> 3] >>
Bonds3D == << [from |-> 0, to |-> 1, order |-> 1] >>

\* structureData values the parent can pass (undefined, and the four
\* combinations of populated / unpopulated 3D atoms and 2D layout)
SDUndefined == [defined |-> FALSE, atoms |-> <<>>, bonds |-> <<>>, structure2D |-> NoLayout]
SDEmpty  == [defined |-> TRUE, atoms |-> <<>>, bonds |-> <<>>, structure2D |-> EmptyLayout]
SD3DOnly == [defined |-> TRUE, atoms |-> Atoms3D, bonds |-> Bonds3D, structure2D |-> NoLayout]
SD3DEmpty2D == [defined |-> TRUE, atoms |-> Atoms3D, bonds |-> Bonds3D, structure2D |-> EmptyLayout]
SDBoth   == [defined |-> TRUE, atoms |-> Atoms3D, bonds |-> Bonds3D, structure2D |-> ModelLayout]
SD2DOnly == [defined |-> TRUE, atoms |-> <<>>, bonds |-> <<>>, structure2D |-> ModelLayout]
Structures == {SDUndefined, SDEmpty, SD3DOnly, SD3DEmpty2D, SDBoth, SD2DOnly}

MoleculeNames == {"", "aspirin", "caffeine"}

\* What the PubChem request can come back with.  kind:
\*   "reject"      fetch() rejects (network error)
\*   "notJSON"     response.json() rejects
\*   "noCompounds" JSON without PC_Compounds[0]
\*   "noCoords"    record without coords (record.coords[0] throws)
\*   "noAtoms"     record without atoms
\*   "record"      a record with atoms and coords
NoRecord(kind) ==
    [kind |-> kind, aid |-> <<>>, element |-> <<>>, x |-> <<>>, y |-> <<>>,
     hasBonds |-> FALSE, aid1 |-> <<>>, aid2 |-> <<>>, order |-> <<>>]

PubChemRecord(name) ==
    IF name = "aspirin"
    THEN [kind |-> "record", aid |-> <<1, 2>>, element |-> <<6, 8>>,
          x |-> <<2, 3>>, y |-> <<1, -1>>,
          hasBonds |-> TRUE, aid1 |-> <<1>>, aid2 |-> <<2>>, order |-> <<2>>]
    ELSE [kind |-> "record", aid |-> <<1, 2>>, element |-> <<7, 99>>,
          x |-> <<0, 4>>, y |-> <<0, 2>>,
          hasBonds |-> FALSE, aid1 |-> <<>>, aid2 |-> <<>>, order |-> <<>>]

FailureKinds == {"reject", "notJSON", "noCompounds", "noCoords", "noAtoms"}

Responses(name) ==
    {NoRecord(kd) : kd \in FailureKinds}
        \cup {PubChemRecord(name), NoRecord("record")}

\* fetchPubChem, the parsing of a record into a Structure2D
ParsePubChem(resp) ==
    [present |-> TRUE,
     atoms |-> [i \in 1..Len(resp.aid) |->
                  [id |-> resp.aid[i],
                   element |-> ATOMIC_NUMBER_MAP(resp.element[i]),
                   x |-> resp.x[i],
                   y |-> resp.y[i] * (-1)]],
     bonds |-> IF resp.hasBonds
               THEN [i \in 1..Len(resp.aid1) |->
                       [from |-> resp.aid1[i], to |-> resp.aid2[i],
                        order |-> resp.order[i]]]
               ELSE <<>>]

\* does the response reach setPubChemData?
StoresData(resp) == resp.kind = "record"

\* ------------------------------------------------------------------------
\* The 2D coordinate resolver (useMemo of MoleculeStructure2D)
\* ------------------------------------------------------------------------
Project3D(atoms) ==
    [i \in 1..Len(atoms) |->
        [id |-> i - 1, element |-> atoms[i].element,
         x |-> atoms[i].x * ProjectionFactor, y |-> atoms[i].y * ProjectionFactor]]

EmptyResolved ==
    [nodes |-> <<>>, connections |-> <<>>, isFallback |-> FALSE, isOfficial |-> FALSE]

\* the resolver with the first two priorities exchanged
ResolveModelFirst(pc, sd) ==
    LET chosen ==
          IF sd.defined /\ sd.structure2D.present /\ Len(sd.structure2D.atoms) > 0
          THEN [nodes |-> sd.structure2D.atoms, connections |-> sd.structure2D.bonds,
                isFallback |-> FALSE, isOfficial |-> FALSE]
          ELSE IF pc.present
          THEN [nodes |-> pc.atoms, connections |-> pc.bonds,
                isFallback |-> FALSE, isOfficial |-> TRUE]
          ELSE IF sd.defined /\ Len(sd.atoms) > 0
          THEN [nodes |-> Project3D(sd.atoms), connections |-> sd.bonds,
                isFallback |-> TRUE, isOfficial |-> FALSE]
          ELSE EmptyResolved
    IN IF Len(chosen.nodes) = 0 THEN EmptyResolved ELSE chosen

Resolve(pc, sd) ==
    LET chosen ==
          IF pc.present
          THEN [nodes |-> pc.atoms, connections |-> pc.bonds,
                isFallback |-> FALSE, isOfficial |-> TRUE]
          ELSE IF sd.defined /\ sd.structure2D.present /\ Len(sd.structure2D.atoms) > 0
          THEN [nodes |-> sd.structure2D.atoms, connections |-> sd.structure2D.bonds,
                isFallback |-> FALSE, isOfficial |-> FALSE]
          ELSE IF sd.defined /\ Len(sd.atoms) > 0
          THEN [nodes |-> Project3D(sd.atoms), connections |-> sd.bonds,
                isFallback |-> TRUE, isOfficial |-> FALSE]
          ELSE EmptyResolved
    IN IF Len(chosen.nodes) = 0 THEN EmptyResolved ELSE chosen

\* ------------------------------------------------------------------------
\* State of the viewer
\* ------------------------------------------------------------------------
VARIABLES
    viewMode,          \* InteractiveMoleculeViewer: '3D' | '2D'
    moleculeName,      \* prop
    structureData,     \* prop
    pubChemData,       \* MoleculeStructure2D state
    isLoadingPubChem,  \* MoleculeStructure2D state
    transform,         \* MoleculeStructure2D state {k, x, y}
    isDragging,        \* MoleculeStructure2D state
    startPan,          \* MoleculeStructure2D state
    seenTransform,     \* transform as captured by the handlers of the last render
    seenDragging,      \* isDragging as captured by the handlers of the last render
    fetches,           \* structure fetches in flight: [id, name, live]
    issued,            \* number of fetches issued so far (id of the latest)
    pubChemSrc,        \* the fetch whose result is in pubChemData (id 0: none)
    lastFetch,         \* outcome of the latest completed fetch of the mounted view
    failedFor,         \* the displayed name, once a fetch for it has failed ("": none)
    scaleOps,          \* scale gestures so far
    panOps,            \* drag gestures so far
    lastOp             \* the handler of the mounted 2D view that ran last

propVars == <<viewMode, moleculeName, structureData>>
dataVars == <<pubChemData, isLoadingPubChem, fetches, issued, pubChemSrc, lastFetch,
             failedFor>>
viewportVars == <<transform, isDragging, startPan, seenTransform, seenDragging>>
budgetVars == <<scaleOps, panOps, lastOp>>
viewerVars == <<propVars, dataVars, viewportVars, budgetVars>>

NoSrc == [id |-> 0, name |-> ""]
NoFetchYet == [id |-> 0, name |-> "", kind |-> "none"]

Resolved == Resolve(pubChemData, structureData)

\* the container carrying the handlers and buttons is rendered only when
\* there are nodes; otherwise the placeholder is returned
ControlsShown == viewMode = "2D" /\ Len(Resolved.nodes) > 0

InitViewer ==
    /\ viewMode = "3D"
    /\ moleculeName \in MoleculeNames
    /\ structureData \in Structures
    /\ pubChemData = NoLayout
    /\ isLoadingPubChem = FALSE
    /\ transform = IdentityTransform
    /\ isDragging = FALSE
    /\ startPan = ZeroPan
    /\ seenTransform = IdentityTransform
    /\ seenDragging = FALSE
    /\ fetches = {}
    /\ issued = 0
    /\ pubChemSrc = NoSrc
    /\ lastFetch = NoFetchYet
    /\ failedFor = ""
    /\ scaleOps = 0
    /\ panOps = 0
    /\ lastOp = "none"

\* ------------------------------------------------------------------------
\* The fetch effect: useEffect(..., [moleculeName]) up to the first await
\* ------------------------------------------------------------------------
\* runs on a mounted 2D view for the name it is rendered with; prevData,
\* prevLoading and prevSrc are the component state when the effect runs
FetchEffect(name, prevData, prevLoading, prevSrc) ==
    IF name = ""
    THEN /\ pubChemData' = prevData
         /\ isLoadingPubChem' = prevLoading
         /\ pubChemSrc' = prevSrc
         /\ UNCHANGED <<fetches, issued>>
    ELSE /\ pubChemData' = NoLayout
         /\ pubChemSrc' = NoSrc
         /\ isLoadingPubChem' = TRUE
         /\ issued' = issued + 1
         /\ fetches' = fetches \cup {[id |-> issued + 1, name |-> name, live |-> TRUE]}

IssuesFetch(name) == name # ""

\* InteractiveMoleculeViewer: the 2D button mounts MoleculeStructure2D with
\* fresh state and runs its effect
ShowView2D ==
    /\ viewMode = "3D"
    /\ IssuesFetch(moleculeName) => issued < MaxFetches
    /\ viewMode' = "2D"
    /\ FetchEffect(moleculeName, NoLayout, FALSE, NoSrc)
    /\ lastFetch' = NoFetchYet
    /\ UNCHANGED <<moleculeName, structureData, failedFor, viewportVars, budgetVars>>

\* the 3D button unmounts MoleculeStructure2D: its state is gone and the
\* requests it issued can no longer update anything
ShowView3D ==
    /\ viewMode = "2D"
    /\ viewMode' = "3D"
    /\ pubChemData' = NoLayout
    /\ pubChemSrc' = NoSrc
    /\ isLoadingPubChem' = FALSE
    /\ lastFetch' = NoFetchYet
    /\ fetches' = {[f EXCEPT !.live = FALSE] : f \in fetches}
    /\ transform' = IdentityTransform
    /\ isDragging' = FALSE
    /\ startPan' = ZeroPan
    /\ seenTransform' = IdentityTransform
    /\ seenDragging' = FALSE
    /\ lastOp' = "none"
    /\ UNCHANGED <<moleculeName, structureData, issued, failedFor, scaleOps, panOps>>

\* the parent re-renders the viewer with new props; a mounted 2D view
\* re-runs the effect when the name differs from the previous render
ChangeProps(name, sd) ==
    /\ <<name, sd>> # <<moleculeName, structureData>>
    /\ moleculeName' = name
    /\ structureData' = sd
    /\ IF viewMode = "2D" /\ name # moleculeName
       THEN /\ IssuesFetch(name) => issued < MaxFetches
            /\ FetchEffect(name, pubChemData, isLoadingPubChem, pubChemSrc)
            /\ UNCHANGED lastFetch
       ELSE UNCHANGED <<pubChemData, isLoadingPubChem, fetches, issued, pubChemSrc, lastFetch>>
    /\ failedFor' = IF name # moleculeName THEN "" ELSE failedFor
    /\ seenTransform' = IF viewMode = "2D" THEN transform ELSE seenTransform
    /\ seenDragging' = IF viewMode = "2D" THEN isDragging ELSE seenDragging
    /\ UNCHANGED <<viewMode, transform, isDragging, startPan, budgetVars>>

\* a completion that also puts the view back to the identity transform
FetchResolveRecentres(f, resp) ==
    /\ f \in fetches
    /\ fetches' = fetches \ {f}
    /\ IF f.live
       THEN /\ IF StoresData(resp)
               THEN /\ pubChemData' = ParsePubChem(resp)
                    /\ pubChemSrc' = [id |-> f.id, name |-> f.name]
               ELSE UNCHANGED <<pubChemData, pubChemSrc>>
            /\ isLoadingPubChem' = FALSE
            /\ lastFetch' = [id |-> f.id, name |-> f.name, kind |-> resp.kind]
            /\ failedFor' = IF ~StoresData(resp) /\ f.name = moleculeName
                             THEN f.name ELSE failedFor
            /\ transform' = IdentityTransform
            /\ seenTransform' = IdentityTransform
            /\ seenDragging' = isDragging
       ELSE UNCHANGED <<pubChemData, pubChemSrc, isLoadingPubChem, lastFetch, failedFor,
                        transform, seenTransform, seenDragging>>
    /\ UNCHANGED <<propVars, issued, isDragging, startPan, budgetVars>>

\* fetchPubChem after the await: the request f comes back with resp
FetchResolve(f, resp) ==
    /\ f \in fetches
    /\ fetches' = fetches \ {f}
    /\ IF f.live
       THEN /\ IF StoresData(resp)
               THEN /\ pubChemData' = ParsePubChem(resp)
                    /\ pubChemSrc' = [id |-> f.id, name |-> f.name]
               ELSE UNCHANGED <<pubChemData, pubChemSrc>>
            /\ isLoadingPubChem' = FALSE
            /\ lastFetch' = [id |-> f.id, name |-> f.name, kind |-> resp.kind]
            /\ failedFor' = IF ~StoresData(resp) /\ f.name = moleculeName
                             THEN f.name ELSE failedFor
            /\ seenTransform' = transform
            /\ seenDragging' = isDragging
       ELSE UNCHANGED <<pubChemData, pubChemSrc, isLoadingPubChem, lastFetch, failedFor,
                        seenTransform, seenDragging>>
    /\ UNCHANGED <<propVars, issued, transform, isDragging, startPan, budgetVars>>

\* ------------------------------------------------------------------------
\* Viewport controller: the handlers of MoleculeStructure2D
\* ------------------------------------------------------------------------
\* pointer positions (clientX, clientY) and wheel deltas the user produces
Pointers == {[x |-> 0, y |-> 0], [x |-> 12, y |-> 7]}
WheelDeltas == {-100, 100, -5000, 5000}

\* the clamp with its upper limit forgotten
ClampNoUpper(k) == RMax(ScaleMin, k)

Clamp(k) == RMin(RMax(ScaleMin, k), ScaleMax)

\* zoom-in without its upper limit
handleZoomInUnclamped ==
    /\ ControlsShown
    /\ scaleOps < MaxScaleOps
    /\ transform' = [transform EXCEPT !.k = RMul(@, ZoomStep)]
    /\ seenTransform' = transform'
    /\ seenDragging' = isDragging
    /\ scaleOps' = scaleOps + 1
    /\ lastOp' = "zoomIn"
    /\ UNCHANGED <<propVars, dataVars, isDragging, startPan, panOps>>

\* click handlers re-render before the next event is handled
handleZoomIn ==
    /\ ControlsShown
    /\ scaleOps < MaxScaleOps
    /\ transform' = [transform EXCEPT !.k = RMin(RMul(@, ZoomStep), ScaleMax)]
    /\ seenTransform' = transform'
    /\ seenDragging' = isDragging
    /\ scaleOps' = scaleOps + 1
    /\ lastOp' = "zoomIn"
    /\ UNCHANGED <<propVars, dataVars, isDragging, startPan, panOps>>

handleZoomOut ==
    /\ ControlsShown
    /\ scaleOps < MaxScaleOps
    /\ transform' = [transform EXCEPT !.k = RMax(RDiv(@, ZoomStep), ScaleMin)]
    /\ seenTransform' = transform'
    /\ seenDragging' = isDragging
    /\ scaleOps' = scaleOps + 1
    /\ lastOp' = "zoomOut"
    /\ UNCHANGED <<propVars, dataVars, isDragging, startPan, panOps>>

\* reset of the scale only
handleResetScaleOnly ==
    /\ ControlsShown
    /\ transform' = [transform EXCEPT !.k = <<1, 1>>]
    /\ seenTransform' = transform'
    /\ seenDragging' = isDragging
    /\ lastOp' = "reset"
    /\ UNCHANGED <<propVars, dataVars, isDragging, startPan, scaleOps, panOps>>

handleReset ==
    /\ ControlsShown
    /\ transform' = IdentityTransform
    /\ seenTransform' = transform'
    /\ seenDragging' = isDragging
    /\ lastOp' = "reset"
    /\ UNCHANGED <<propVars, dataVars, isDragging, startPan, scaleOps, panOps>>

\* newScale is computed from the transform the handler closed over; the
\* re-render after a wheel event may come after further events
WheelScale(k, deltaY) == Clamp(RAdd(k, RMul(<<-deltaY, 1>>, WheelFactor)))

handleWheel(deltaY) ==
    /\ ControlsShown
    /\ scaleOps < MaxScaleOps
    /\ transform' = [transform EXCEPT !.k = WheelScale(seenTransform.k, deltaY)]
    /\ scaleOps' = scaleOps + 1
    /\ lastOp' = "wheel"
    /\ UNCHANGED <<propVars, dataVars, isDragging, startPan, seenTransform,
                   seenDragging, panOps>>

handleMouseDown(cx, cy) ==
    /\ ControlsShown
    /\ panOps < MaxPanOps
    /\ isDragging' = TRUE
    /\ startPan' = [x |-> cx - seenTransform.x, y |-> cy - seenTransform.y]
    /\ seenTransform' = transform
    /\ seenDragging' = TRUE
    /\ panOps' = panOps + 1
    /\ lastOp' = "mouseDown"
    /\ UNCHANGED <<propVars, dataVars, transform, scaleOps>>

handleMouseMove(cx, cy) ==
    /\ ControlsShown
    /\ IF seenDragging
       THEN transform' = [transform EXCEPT !.x = cx - startPan.x, !.y = cy - startPan.y]
       ELSE UNCHANGED transform
    /\ lastOp' = "mouseMove"
    /\ UNCHANGED <<propVars, dataVars, isDragging, startPan, seenTransform,
                   seenDragging, scaleOps, panOps>>

\* onMouseUp
handleMouseUp ==
    /\ ControlsShown
    /\ isDragging' = FALSE
    /\ seenTransform' = transform
    /\ seenDragging' = FALSE
    /\ lastOp' = "mouseUp"
    /\ UNCHANGED <<propVars, dataVars, transform, startPan, scaleOps, panOps>>

\* onMouseLeave: the same handler, re-rendered like wheel and mouse-move
handleMouseLeave ==
    /\ ControlsShown
    /\ isDragging' = FALSE
    /\ lastOp' = "mouseLeave"
    /\ UNCHANGED <<propVars, dataVars, transform, startPan, seenTransform,
                   seenDragging, scaleOps, panOps>>

\* the re-render after wheel / mouse-move / mouse-leave updates
Rerender ==
    /\ viewMode = "2D"
    /\ <<seenTransform, seenDragging>> # <<transform, isDragging>>
    /\ seenTransform' = transform
    /\ seenDragging' = isDragging
    /\ UNCHANGED <<propVars, dataVars, transform, isDragging, startPan, budgetVars>>

NextData ==
    \/ ShowView2D
    \/ ShowView3D
    \/ \E name \in MoleculeNames, sd \in Structures : ChangeProps(name, sd)
    \/ \E f \in fetches : \E resp \in Responses(f.name) : FetchResolve(f, resp)

NextViewport ==
    \/ handleZoomIn
    \/ handleZoomOut
    \/ handleReset
    \/ \E deltaY \in WheelDeltas : handleWheel(deltaY)
    \/ \E p \in Pointers : handleMouseDown(p.x, p.y)
    \/ \E p \in Pointers : handleMouseMove(p.x, p.y)
    \/ handleMouseUp
    \/ handleMouseLeave
    \/ Rerender

\* ------------------------------------------------------------------------
\* The analysis components (ImageAnalysis, TextAnalysis, ComparisonEngine)
\* and the application shell (App): data
\* ------------------------------------------------------------------------
\* number of analyses / comparisons started in one behaviour
MaxRuns == 2

Tabs == {"HOME", "IMAGE", "TEXT", "COMPARISON", "REPORT"}

\* a state holding string | null
NoError == [null |-> TRUE, msg |-> ""]
Err(m) == [null |-> FALSE, msg |-> m]

\* a result object is the set of the fields it has; null is kept apart
NoData == [null |-> TRUE, fields |-> {}]
Obj(fields) == [null |-> FALSE, fields |-> fields]

\* fields the render of each component reads without a guard
ImageRequired == {"features", "hypotheticalVariations", "properties", "similarFamilies"}
TextRequired == {"keyConcepts", "experimentGoals", "results"}
ComparisonRequired == {"comparisonTable"}

\* the objects a schema-conforming response carries
ImageFull == ImageRequired \cup {"chemicalName", "structure"}
TextFull == TextRequired \cup {"summary", "visuals"}
ComparisonFull == ComparisonRequired \cup {"molecule1", "molecule2", "similarityScore"}

\* response.text of the model as a sequence of pieces: the Markdown fence
\* markers (three backquotes, with or without json), white space, a JSON document (an object with
\* the given fields, or null), and prose that is not JSON
FenceJson == [kind |-> "fence-json", fields |-> {}]
Fence == [kind |-> "fence", fields |-> {}]
Space == [kind |-> " ", fields |-> {}]
Prose == [kind |-> "prose", fields |-> {}]
JsonNull == [kind |-> "null", fields |-> {}]
Doc(fields) == [kind |-> "object", fields |-> fields]

\* the texts the services hand to parseJSON: the schema's object, bare or
\* fenced, the empty object, and text that is not JSON
ResponseTexts(full) ==
    {<<Doc(full)>>, <<FenceJson, Doc(full), Fence>>, <<Doc({})>>, <<Prose>>}

\* the two text.replace calls: every fence marker goes
StripFences(text) == SelectSeq(text, LAMBDA c : c.kind \notin {"fence-json", "fence"})

\* String.prototype.trim: white space at both ends goes
RECURSIVE TrimStart(_)
TrimStart(text) ==
    IF text # <<>> /\ Head(text).kind = " " THEN TrimStart(Tail(text)) ELSE text

RECURSIVE TrimEnd(_)
TrimEnd(text) ==
    IF text # <<>> /\ text[Len(text)].kind = " "
    THEN TrimEnd(SubSeq(text, 1, Len(text) - 1))
    ELSE text

TrimText(text) == TrimEnd(TrimStart(text))

\* JSON.parse: the value of a text that is one JSON document, a SyntaxError
\* for anything else (the empty text, prose, two documents)
JSONParse(text) ==
    IF Len(text) = 1 /\ text[1].kind = "object"
    THEN [threw |-> FALSE, value |-> Obj(text[1].fields)]
    ELSE IF Len(text) = 1 /\ text[1].kind = "null"
    THEN [threw |-> FALSE, value |-> NoData]
    ELSE [threw |-> TRUE, value |-> NoData]

\* parseJSON handing the text to JSON.parse as it is
parseJSONUnstripped(text) ==
    LET parsed == JSONParse(TrimText(text))
    IN IF parsed.threw THEN [threw |-> FALSE, value |-> Obj({})] ELSE parsed

\* parseJSON: the fence markers are removed, the rest is trimmed and
\* parsed, and the catch turns a parse failure into {}
parseJSON(text) ==
    LET parsed == JSONParse(TrimText(StripFences(text)))
    IN IF parsed.threw THEN [threw |-> FALSE, value |-> Obj({})] ELSE parsed

\* how an awaited service call ends: it rejects with an Error whose message
\* may be empty, or resolves with parseJSON(response.text)
RejectMessages == {"", "Failed to fetch"}
Rejections == {[ok |-> FALSE, msg |-> mg, result |-> NoData] : mg \in RejectMessages}
Resolutions(full) ==
    {[ok |-> TRUE, msg |-> "", result |-> parseJSON(t).value] : t \in ResponseTexts(full)}
Outcomes(full) == Rejections \cup Resolutions(full)

\* validateComparisonInputs: the two flags of the parsed object; a field the
\* object lacks reads as undefined
Flags == {"true", "false", "undefined"}
Truthy(flag) == flag = "true"
Validations ==
    {[ok |-> TRUE, msg |-> "", mol1Valid |-> f1, mol2Valid |-> f2] : f1 \in Flags, f2 \in Flags}
        \cup {[ok |-> FALSE, msg |-> mg, mol1Valid |-> "undefined", mol2Valid |-> "undefined"] :
                mg \in RejectMessages}

\* user inputs
NoFile == "none"
Files == {"moleculeA.png", "moleculeB.png"}
Texts == {"", " ", "abstract"}
MolInputs == {"", " ", "aspirin", "xyz123notamolecule"}

\* String.prototype.trim on the inputs above
Trim(str) == IF str = " " THEN "" ELSE str

ImageDefaultError == "Analysis failed. Please try a clearer image or check your API configuration."
CompareDefaultError == "Analysis failed. Please check your connection."

\* e.message || fallback
MessageOr(msg, fallback) == IF msg = "" THEN fallback ELSE msg

\* the message naming the other input
InvalidMessageSwapped(v, m1, m2) ==
    "Invalid Input: " \o
      (IF ~Truthy(v.mol1Valid) /\ ~Truthy(v.mol2Valid)
       THEN "Both inputs are not recognized as valid chemical entities."
       ELSE IF ~Truthy(v.mol1Valid)
       THEN "\"" \o m2 \o "\" is not a recognized molecule or valid structure format."
       ELSE IF ~Truthy(v.mol2Valid)
       THEN "\"" \o m1 \o "\" is not a recognized molecule or valid structure format."
       ELSE "")

\* handleCompare, the message for a failed validation
InvalidMessage(v, m1, m2) ==
    "Invalid Input: " \o
      (IF ~Truthy(v.mol1Valid) /\ ~Truthy(v.mol2Valid)
       THEN "Both inputs are not recognized as valid chemical entities."
       ELSE IF ~Truthy(v.mol1Valid)
       THEN "\"" \o m1 \o "\" is not a recognized molecule or valid structure format."
       ELSE IF ~Truthy(v.mol2Valid)
       THEN "\"" \o m2 \o "\" is not a recognized molecule or valid structure format."
       ELSE "")

\* does rendering the component with this data throw?
RenderThrows(required, d) == ~d.null /\ ~(required \subseteq d.fields)

\* ------------------------------------------------------------------------
\* State of the application
\* ------------------------------------------------------------------------
VARIABLES
    activeTab,   \* App: the tab whose component is mounted
    history,     \* App: the session history, newest first
    crashed,     \* a render threw and React unmounted the tree
    img,         \* ImageAnalysis state: file, loading, error, data
    txt,         \* TextAnalysis state: text, loading, data
    cmp,         \* ComparisonEngine state: mol1, mol2, loading, error, data
    calls,       \* service calls awaited by a handler
    runs,        \* handler runs started so far (id of the latest)
    lastRun      \* record of the run of the mounted component that finished last

appVars == <<activeTab, history, crashed, img, txt, cmp, calls, runs, lastRun>>

\* the record kept of a finished handler run: its inputs, the validation
\* flags it got, whether it issued the comparison request, how it ended
\* ("success", "failed", "rejected"), the rejection's message and whether
\* the result was the empty object
NoRun ==
    [id |-> 0, comp |-> "", mol1 |-> "", mol2 |-> "",
     mol1Valid |-> "none", mol2Valid |-> "none", compared |-> FALSE,
     result |-> "none", reason |-> "", emptyResult |-> FALSE]

Finished(c, result, reason, empty) ==
    [id |-> c.id, comp |-> c.comp, mol1 |-> c.mol1, mol2 |-> c.mol2,
     mol1Valid |-> c.mol1Valid, mol2Valid |-> c.mol2Valid,
     compared |-> c.stage = "compare",
     result |-> result, reason |-> reason, emptyResult |-> empty]

Settled(c, o) ==
    Finished(c, IF o.ok THEN "success" ELSE "failed", o.msg, o.ok /\ o.result.fields = {})

ImgInit == [file |-> NoFile, loading |-> FALSE, error |-> NoError, data |-> NoData]
TxtInit == [text |-> "", loading |-> FALSE, data |-> NoData]
CmpInit == [mol1 |-> "", mol2 |-> "", loading |-> FALSE, error |-> NoError, data |-> NoData]

InitApp ==
    /\ activeTab = "HOME"
    /\ history = <<>>
    /\ crashed = FALSE
    /\ img = ImgInit
    /\ txt = TxtInit
    /\ cmp = CmpInit
    /\ calls = {}
    /\ runs = 0
    /\ lastRun = NoRun

\* ------------------------------------------------------------------------
\* Operations of the application
\* ------------------------------------------------------------------------
Mounted(tab) == ~crashed /\ activeTab = tab

Call(id, comp, stage, m1, m2) ==
    [id |-> id, comp |-> comp, stage |-> stage, live |-> TRUE, mol1 |-> m1, mol2 |-> m2,
     mol1Valid |-> "none", mol2Valid |-> "none"]

OrphanedCalls == {[c EXCEPT !.live = FALSE] : c \in calls}

\* App.handleAnalysisComplete
handleAnalysisComplete(entry) == <<entry>> \o history

\* Sidebar / home buttons: another tab is shown; the component of the old
\* tab is unmounted and the one of the new tab is mounted with fresh state
SelectTab(tab) ==
    /\ ~crashed
    /\ tab # activeTab
    /\ activeTab' = tab
    /\ img' = ImgInit
    /\ txt' = TxtInit
    /\ cmp' = CmpInit
    /\ calls' = OrphanedCalls
    /\ lastRun' = NoRun
    /\ UNCHANGED <<history, crashed, runs>>

\* what a handler's continuation does to the shell when it has a result:
\* the component (if still mounted) re-renders with the result, and a render
\* that throws takes the whole tree down before anything is committed
Crashes(c, required, result) == c.live /\ RenderThrows(required, result)

\* ---- ImageAnalysis ----
handleFileChange(f) ==
    /\ Mounted("IMAGE")
    /\ ~img.loading
    /\ img' = [img EXCEPT !.file = f, !.data = NoData, !.error = NoError]
    /\ lastRun' = NoRun
    /\ UNCHANGED <<activeTab, history, crashed, txt, cmp, calls, runs>>

ImageHandleAnalyze ==
    /\ Mounted("IMAGE")
    /\ ~img.loading
    /\ IF img.file = NoFile
       THEN UNCHANGED appVars
       ELSE /\ runs < MaxRuns
            /\ img' = [img EXCEPT !.loading = TRUE, !.error = NoError]
            /\ runs' = runs + 1
            /\ calls' = calls \cup {Call(runs + 1, "IMAGE", "analyze", "", "")}
            /\ lastRun' = NoRun
            /\ UNCHANGED <<activeTab, history, crashed, txt, cmp>>

ImageAnalyzeDone(c, o) ==
    /\ c \in calls /\ c.comp = "IMAGE"
    /\ IF crashed
       THEN /\ calls' = calls \ {c}
            /\ UNCHANGED <<history, crashed, img, lastRun>>
       ELSE IF o.ok /\ Crashes(c, ImageRequired, o.result)
       THEN /\ crashed' = TRUE
            /\ img' = ImgInit
            /\ calls' = OrphanedCalls \ {[c EXCEPT !.live = FALSE]}
            /\ lastRun' = Settled(c, o)
            /\ UNCHANGED history
       ELSE /\ calls' = calls \ {c}
            /\ history' = IF o.ok
                          THEN handleAnalysisComplete([type |-> "IMAGE", run |-> c.id])
                          ELSE history
            /\ img' = IF ~c.live THEN img
                      ELSE IF o.ok
                      THEN [img EXCEPT !.data = o.result, !.loading = FALSE]
                      ELSE [img EXCEPT !.error = Err(MessageOr(o.msg, ImageDefaultError)),
                                       !.loading = FALSE]
            /\ lastRun' = IF c.live THEN Settled(c, o) ELSE lastRun
            /\ UNCHANGED crashed
    /\ UNCHANGED <<activeTab, txt, cmp, runs>>

\* ---- TextAnalysis ----
setText(t) ==
    /\ Mounted("TEXT")
    /\ ~txt.loading
    /\ t # txt.text
    /\ txt' = [txt EXCEPT !.text = t]
    /\ UNCHANGED <<activeTab, history, crashed, img, cmp, calls, runs, lastRun>>

TextHandleAnalyze ==
    /\ Mounted("TEXT")
    /\ ~txt.loading
    /\ IF Trim(txt.text) = ""
       THEN UNCHANGED appVars
       ELSE /\ runs < MaxRuns
            /\ txt' = [txt EXCEPT !.loading = TRUE]
            /\ runs' = runs + 1
            /\ calls' = calls \cup {Call(runs + 1, "TEXT", "analyze", "", "")}
            /\ lastRun' = NoRun
            /\ UNCHANGED <<activeTab, history, crashed, img, cmp>>

TextAnalyzeDone(c, o) ==
    /\ c \in calls /\ c.comp = "TEXT"
    /\ IF crashed
       THEN /\ calls' = calls \ {c}
            /\ UNCHANGED <<history, crashed, txt, lastRun>>
       ELSE IF o.ok /\ Crashes(c, TextRequired, o.result)
       THEN /\ crashed' = TRUE
            /\ txt' = TxtInit
            /\ calls' = OrphanedCalls \ {[c EXCEPT !.live = FALSE]}
            /\ lastRun' = Settled(c, o)
            /\ UNCHANGED history
       ELSE /\ calls' = calls \ {c}
            /\ history' = IF o.ok
                          THEN handleAnalysisComplete([type |-> "TEXT", run |-> c.id])
                          ELSE history
            /\ txt' = IF ~c.live THEN txt
                      ELSE IF o.ok
                      THEN [txt EXCEPT !.data = o.result, !.loading = FALSE]
                      ELSE [txt EXCEPT !.loading = FALSE]
            /\ lastRun' = IF c.live THEN Settled(c, o) ELSE lastRun
            /\ UNCHANGED crashed
    /\ UNCHANGED <<activeTab, img, cmp, runs>>

\* ---- ComparisonEngine ----
setMol1(v) ==
    /\ Mounted("COMPARISON")
    /\ v # cmp.mol1
    /\ cmp' = [cmp EXCEPT !.mol1 = v]
    /\ UNCHANGED <<activeTab, history, crashed, img, txt, calls, runs, lastRun>>

setMol2(v) ==
    /\ Mounted("COMPARISON")
    /\ v # cmp.mol2
    /\ cmp' = [cmp EXCEPT !.mol2 = v]
    /\ UNCHANGED <<activeTab, history, crashed, img, txt, calls, runs, lastRun>>

\* handleCompare starting without setData(null)
handleCompareKeepsData ==
    /\ Mounted("COMPARISON")
    /\ ~cmp.loading
    /\ IF Trim(cmp.mol1) = "" \/ Trim(cmp.mol2) = ""
       THEN UNCHANGED appVars
       ELSE /\ runs < MaxRuns
            /\ cmp' = [cmp EXCEPT !.loading = TRUE, !.error = NoError]
            /\ runs' = runs + 1
            /\ calls' = calls \cup {Call(runs + 1, "COMPARISON", "validate", cmp.mol1, cmp.mol2)}
            /\ lastRun' = NoRun
            /\ UNCHANGED <<activeTab, history, crashed, img, txt>>

\* handleCompare testing the first input only
handleCompareFirstInputOnly ==
    /\ Mounted("COMPARISON")
    /\ ~cmp.loading
    /\ IF Trim(cmp.mol1) = ""
       THEN UNCHANGED appVars
       ELSE /\ runs < MaxRuns
            /\ cmp' = [cmp EXCEPT !.loading = TRUE, !.error = NoError, !.data = NoData]
            /\ runs' = runs + 1
            /\ calls' = calls \cup {Call(runs + 1, "COMPARISON", "validate", cmp.mol1, cmp.mol2)}
            /\ lastRun' = NoRun
            /\ UNCHANGED <<activeTab, history, crashed, img, txt>>

\* handleCompare up to the first await
handleCompare ==
    /\ Mounted("COMPARISON")
    /\ ~cmp.loading
    /\ IF Trim(cmp.mol1) = "" \/ Trim(cmp.mol2) = ""
       THEN UNCHANGED appVars
       ELSE /\ runs < MaxRuns
            /\ cmp' = [cmp EXCEPT !.loading = TRUE, !.error = NoError, !.data = NoData]
            /\ runs' = runs + 1
            /\ calls' = calls \cup {Call(runs + 1, "COMPARISON", "validate", cmp.mol1, cmp.mol2)}
            /\ lastRun' = NoRun
            /\ UNCHANGED <<activeTab, history, crashed, img, txt>>

\* the guard with || written as &&
PassesValidationEither(v) == Truthy(v.mol1Valid) \/ Truthy(v.mol2Valid)

\* the guard comparing each flag with false
PassesValidationNotFalse(v) == v.mol1Valid # "false" /\ v.mol2Valid # "false"

\* the negation of (!validation.mol1Valid || !validation.mol2Valid)
PassesValidation(v) == Truthy(v.mol1Valid) /\ Truthy(v.mol2Valid)

\* the validation branch returning without setLoading(false), past the finally
CompareValidatedKeepsLoading(c, v) ==
    /\ c \in calls /\ c.comp = "COMPARISON" /\ c.stage = "validate"
    /\ IF v.ok /\ PassesValidation(v)
       THEN \* 2. Run Comparison: the second request goes out
            /\ calls' = (calls \ {c}) \cup
                          {[c EXCEPT !.stage = "compare", !.mol1Valid = v.mol1Valid,
                                     !.mol2Valid = v.mol2Valid]}
            /\ UNCHANGED <<cmp, lastRun>>
       ELSE /\ calls' = calls \ {c}
            /\ cmp' = IF crashed \/ ~c.live THEN cmp
                      ELSE IF v.ok
                      THEN [cmp EXCEPT !.error = Err(InvalidMessage(v, c.mol1, c.mol2))]
                      ELSE [cmp EXCEPT !.error = Err(MessageOr(v.msg, CompareDefaultError)),
                                       !.loading = FALSE]
            /\ lastRun' = IF crashed \/ ~c.live THEN lastRun
                          ELSE IF v.ok
                          THEN Finished([c EXCEPT !.mol1Valid = v.mol1Valid,
                                                  !.mol2Valid = v.mol2Valid],
                                        "rejected", "", FALSE)
                          ELSE Finished(c, "failed", v.msg, FALSE)
    /\ UNCHANGED <<activeTab, history, crashed, img, txt, runs>>

\* handleCompare after validateComparisonInputs has settled
CompareValidated(c, v) ==
    /\ c \in calls /\ c.comp = "COMPARISON" /\ c.stage = "validate"
    /\ IF v.ok /\ PassesValidation(v)
       THEN \* 2. Run Comparison: the second request goes out
            /\ calls' = (calls \ {c}) \cup
                          {[c EXCEPT !.stage = "compare", !.mol1Valid = v.mol1Valid,
                                     !.mol2Valid = v.mol2Valid]}
            /\ UNCHANGED <<cmp, lastRun>>
       ELSE /\ calls' = calls \ {c}
            /\ cmp' = IF crashed \/ ~c.live THEN cmp
                      ELSE IF v.ok
                      THEN [cmp EXCEPT !.error = Err(InvalidMessage(v, c.mol1, c.mol2)),
                                       !.loading = FALSE]
                      ELSE [cmp EXCEPT !.error = Err(MessageOr(v.msg, CompareDefaultError)),
                                       !.loading = FALSE]
            /\ lastRun' = IF crashed \/ ~c.live THEN lastRun
                          ELSE IF v.ok
                          THEN Finished([c EXCEPT !.mol1Valid = v.mol1Valid,
                                                  !.mol2Valid = v.mol2Valid],
                                        "rejected", "", FALSE)
                          ELSE Finished(c, "failed", v.msg, FALSE)
    /\ UNCHANGED <<activeTab, history, crashed, img, txt, runs>>

\* handleCompare after compareMoleculesText has settled
CompareDone(c, o) ==
    /\ c \in calls /\ c.comp = "COMPARISON" /\ c.stage = "compare"
    /\ IF crashed
       THEN /\ calls' = calls \ {c}
            /\ UNCHANGED <<history, crashed, cmp, lastRun>>
       ELSE IF o.ok /\ Crashes(c, ComparisonRequired, o.result)
       THEN /\ crashed' = TRUE
            /\ cmp' = CmpInit
            /\ calls' = OrphanedCalls \ {[c EXCEPT !.live = FALSE]}
            /\ lastRun' = Settled(c, o)
            /\ UNCHANGED history
       ELSE /\ calls' = calls \ {c}
            /\ history' = IF o.ok
                          THEN handleAnalysisComplete([type |-> "COMPARISON", run |-> c.id])
                          ELSE history
            /\ cmp' = IF ~c.live THEN cmp
                      ELSE IF o.ok
                      THEN [cmp EXCEPT !.data = o.result, !.loading = FALSE]
                      ELSE [cmp EXCEPT !.error = Err(MessageOr(o.msg, CompareDefaultError)),
                                       !.loading = FALSE]
            /\ lastRun' = IF c.live THEN Settled(c, o) ELSE lastRun
            /\ UNCHANGED crashed
    /\ UNCHANGED <<activeTab, img, txt, runs>>

NextApp ==
    \/ \E tab \in Tabs : SelectTab(tab)
    \/ \E f \in Files : handleFileChange(f)
    \/ ImageHandleAnalyze
    \/ \E c \in calls : \E o \in Outcomes(ImageFull) : ImageAnalyzeDone(c, o)
    \/ \E t \in Texts : setText(t)
    \/ TextHandleAnalyze
    \/ \E c \in calls : \E o \in Outcomes(TextFull) : TextAnalyzeDone(c, o)
    \/ \E v \in MolInputs : setMol1(v)
    \/ \E v \in MolInputs : setMol2(v)
    \/ handleCompare
    \/ \E c \in calls : \E v \in Validations : CompareValidated(c, v)
    \/ \E c \in calls : \E o \in Outcomes(ComparisonFull) : CompareDone(c, o)

\* ------------------------------------------------------------------------
\* The 2D bond renderer (the BONDS block of MoleculeStructure2D)
\* ------------------------------------------------------------------------
\* nodes.find(n => n.id === id): position of the first node with that id,
\* 0 for undefined
FindNode(nodes, id) ==
    LET hits == {i \in 1..Len(nodes) : nodes[i].id = id}
    IN IF hits = {} THEN 0 ELSE CHOOSE i \in hits : \A j \in hits : i <= j

\* baseWidth in units of 0.06 * strokeScale: 0.1 for PubChem data, else 5
BaseWidth(official) == IF official THEN 1 ELSE 50

\* one <line>: width in tenths of baseWidth times BaseWidth, stroke colour
\* (the group's bond colour or the background colour), dash array, opacity
Line(a, b, width, stroke, dashed, opacity) ==
    [x1 |-> a.x, y1 |-> a.y, x2 |-> b.x, y2 |-> b.y,
     width |-> width, stroke |-> stroke, dashed |-> dashed, opacity |-> opacity]

BondColor == "#94a3b8"
BackgroundColor == "#0B0F19"

\* the renderer without the aromatic branch
BondStrokesNoAromatic(nodes, conn, official) ==
    LET f == FindNode(nodes, conn.from)
        t == FindNode(nodes, conn.to)
        w == BaseWidth(official)
    IN IF f = 0 \/ t = 0
       THEN [threw |-> FALSE, strokes |-> <<>>]
       ELSE LET a == nodes[f]
                b == nodes[t]
            IN [threw |-> FALSE,
                strokes |->
                  IF conn.order = 2
                  THEN << Line(a, b, 25 * w, BondColor, FALSE, 100),
                          Line(a, b, 8 * w, BackgroundColor, FALSE, 100) >>
                  ELSE IF conn.order = 3
                  THEN << Line(a, b, 35 * w, BondColor, FALSE, 100),
                          Line(a, b, 15 * w, BackgroundColor, FALSE, 100),
                          Line(a, b, 5 * w, BondColor, FALSE, 100) >>
                  ELSE << Line(a, b, 10 * w, BondColor, FALSE, 100) >>]

\* the renderer testing only the first endpoint before it reads both
BondStrokesFromOnly(nodes, conn, official) ==
    LET f == FindNode(nodes, conn.from)
        t == FindNode(nodes, conn.to)
        w == BaseWidth(official)
    IN IF f = 0 THEN [threw |-> FALSE, strokes |-> <<>>]
       ELSE IF t = 0 THEN [threw |-> TRUE, strokes |-> <<>>]
       ELSE [threw |-> FALSE,
             strokes |-> <<Line(nodes[f], nodes[t], 10 * w, BondColor, FALSE, 100)>>]

\* what one element of connections.map(...) evaluates to: the <line>
\* elements of its group, or a TypeError when a property of an undefined
\* node is read
BondStrokes(nodes, conn, official) ==
    LET f == FindNode(nodes, conn.from)
        t == FindNode(nodes, conn.to)
        w == BaseWidth(official)
    IN IF f = 0 \/ t = 0
       THEN [threw |-> FALSE, strokes |-> <<>>]
       ELSE LET a == nodes[f]
                b == nodes[t]
            IN [threw |-> FALSE,
                strokes |->
                  IF conn.order = 2
                  THEN << Line(a, b, 25 * w, BondColor, FALSE, 100),
                          Line(a, b, 8 * w, BackgroundColor, FALSE, 100) >>
                  ELSE IF conn.order = 3
                  THEN << Line(a, b, 35 * w, BondColor, FALSE, 100),
                          Line(a, b, 15 * w, BackgroundColor, FALSE, 100),
                          Line(a, b, 5 * w, BondColor, FALSE, 100) >>
                  ELSE IF conn.order = 4
                  THEN << Line(a, b, 10 * w, BondColor, TRUE, 100),
                          Line(a, b, 10 * w, BondColor, FALSE, 50) >>
                  ELSE << Line(a, b, 10 * w, BondColor, FALSE, 100) >>]

\* connections.map over all bonds; a throw in any element aborts the render
RenderBonds(nodes, connections, official) ==
    LET each == [i \in 1..Len(connections) |-> BondStrokes(nodes, connections[i], official)]
    IN [threw |-> \E i \in 1..Len(connections) : each[i].threw,
        groups |-> [i \in 1..Len(connections) |-> each[i].strokes]]

\* ------------------------------------------------------------------------
\* The 3D scene builder (MoleculeStructure3D): geometry normalizer and bonds
\* ------------------------------------------------------------------------
\* vectors of exact rationals; distances are taken of atom sets whose
\* distances are rational (RSqrt is defined on squares of rationals)
RSub(a, b) == RAdd(a, <<-b[1], b[2]>>)
ISqrt(n) == CHOOSE r \in 0..n : r * r = n
RSqrt(q) == <<ISqrt(q[1]), ISqrt(q[2])>>

Vector3(a) == << <<a.x, 1>>, <<a.y, 1>>, <<a.z, 1>> >>
ZeroVector == << <<0, 1>>, <<0, 1>>, <<0, 1>> >>
VAdd(u, v) == <<RAdd(u[1], v[1]), RAdd(u[2], v[2]), RAdd(u[3], v[3])>>
VSub(u, v) == <<RSub(u[1], v[1]), RSub(u[2], v[2]), RSub(u[3], v[3])>>
MultiplyScalar(u, s) == <<RMul(u[1], s), RMul(u[2], s), RMul(u[3], s)>>
DivideScalar(u, n) == <<RDiv(u[1], <<n, 1>>), RDiv(u[2], <<n, 1>>), RDiv(u[3], <<n, 1>>)>>
LengthSq(u) == RAdd(RAdd(RMul(u[1], u[1]), RMul(u[2], u[2])), RMul(u[3], u[3]))
DistanceTo(u, v) == RSqrt(LengthSq(VSub(u, v)))

\* the target radius 5.5
TargetRadius == <<11, 2>>

\* centroid.add(...) over the first i atoms
RECURSIVE SumTo(_, _)
SumTo(atoms, i) ==
    IF i = 0 THEN ZeroVector ELSE VAdd(SumTo(atoms, i - 1), Vector3(atoms[i]))

\* the forEach keeping the largest distance to the centroid, from 0
RECURSIVE MaxDistTo(_, _, _)
MaxDistTo(atoms, centroid, i) ==
    IF i = 0 THEN <<0, 1>>
    ELSE RMax(DistanceTo(Vector3(atoms[i]), centroid), MaxDistTo(atoms, centroid, i - 1))

\* scale = maxDist > 0 ? 5.5 / maxDist : 1
ScaleFor(maxDist) ==
    IF ~RLeq(maxDist, <<0, 1>>) THEN RDiv(TargetRadius, maxDist) ELSE <<1, 1>>

\* the atoms moved by -centroid and multiplied by the scale of their
\* largest distance to it
Rescaled(atoms, centroid, scale) ==
    [scale |-> scale,
     positions |-> [i \in 1..Len(atoms) |->
                      MultiplyScalar(VSub(Vector3(atoms[i]), centroid), scale)]]

\* centroid, maxDist and scale of the useMemo, for a known centroid
NormalizeAbout(atoms, centroid) ==
    Rescaled(atoms, centroid, ScaleFor(MaxDistTo(atoms, centroid, Len(atoms))))

\* centroid.divideScalar(atoms.length) of the sum of the positions
Centroid(atoms) == DivideScalar(SumTo(atoms, Len(atoms)), Len(atoms))

\* the normalizer scaling without centring
NormalizeUncentred(atoms) ==
    [scale |-> ScaleFor(MaxDistTo(atoms, Centroid(atoms), Len(atoms))),
     positions |-> [i \in 1..Len(atoms) |->
                      MultiplyScalar(Vector3(atoms[i]),
                                     ScaleFor(MaxDistTo(atoms, Centroid(atoms), Len(atoms))))]]

\* the geometry normalizer, for a non-empty atom list
Normalize(atoms) == NormalizeAbout(atoms, Centroid(atoms))

\* the nodes (normalized position and element) and the connections
\* (index pairs) the useMemo returns
Lists(sd, n) ==
    [scale |-> n.scale,
     nodes |-> [i \in 1..Len(sd.atoms) |->
                  [pos |-> n.positions[i], element |-> sd.atoms[i].element]],
     connections |-> [i \in 1..Len(sd.bonds) |-> <<sd.bonds[i].from, sd.bonds[i].to>>]]

\* the useMemo of MoleculeStructure3D: nodes and connections
SceneLists(sd) ==
    IF sd.defined /\ Len(sd.atoms) > 0
    THEN Lists(sd, Normalize(sd.atoms))
    ELSE [scale |-> <<1, 1>>, nodes |-> <<>>, connections |-> <<>>]

\* nodes[i] of a JavaScript array: defined for 0 <= i < length
HasIndex(nodes, i) == i >= 0 /\ i < Len(nodes)

\* the render of MoleculeStructure3D: null without nodes; else a sphere per
\* node and a Bond per connection, reading nodes[conn[0]].pos and
\* nodes[conn[1]].pos, which throws a TypeError for an undefined node
RenderScene(scale, nodes, conns) ==
    IF Len(nodes) = 0
    THEN [threw |-> FALSE, scale |-> scale, spheres |-> <<>>, cylinders |-> <<>>]
    ELSE IF \E i \in 1..Len(conns) :
                ~(HasIndex(nodes, conns[i][1]) /\ HasIndex(nodes, conns[i][2]))
    THEN [threw |-> TRUE, scale |-> scale, spheres |-> <<>>, cylinders |-> <<>>]
    ELSE [threw |-> FALSE, scale |-> scale,
          spheres |-> [i \in 1..Len(nodes) |-> nodes[i].pos],
          cylinders |-> [i \in 1..Len(conns) |->
                           [start |-> nodes[conns[i][1] + 1].pos,
                            end |-> nodes[conns[i][2] + 1].pos]]]

\* the lists of the useMemo, then the render
SceneOf(lists) == RenderScene(lists.scale, lists.nodes, lists.connections)

BuildScene3D(sd) == SceneOf(SceneLists(sd))

\* ------------------------------------------------------------------------
\* Atom colouring (getAtomColor)
\* ------------------------------------------------------------------------
\* an element symbol is a sequence of letters; the letters of the table's
\* keys and of two unlisted elements (He, Co), in both cases
Letters == {"C", "c", "L", "l", "B", "b", "R", "r", "H", "h", "E", "e", "O", "o"}

\* String.prototype.toUpperCase on one letter
ToUpperCase(ch) ==
    CASE ch = "c" -> "C" [] ch = "l" -> "L" [] ch = "b" -> "B" [] ch = "r" -> "R"
      [] ch = "h" -> "H" [] ch = "e" -> "E" [] ch = "o" -> "O" [] OTHER -> ch

\* el.charAt(0): the first letter, the empty string for an empty string
CharAt0(el) == IF Len(el) = 0 THEN <<>> ELSE <<el[1]>>

\* el.slice(1)
Slice1(el) == IF Len(el) = 0 THEN <<>> ELSE Tail(el)

\* toUpperCase on a string
UpperString(s) == [i \in 1..Len(s) |-> ToUpperCase(s[i])]

DefaultColor == "#DA70D6"

\* the CPK table, for the keys over Letters; "undefined" for any other key
ATOM_COLORS(key) ==
    CASE key = <<"H">> -> "#FFFFFF"
      [] key = <<"C">> -> "#909090"
      [] key = <<"O">> -> "#FF0D0D"
      [] key = <<"C", "l">> -> "#1FF01F"
      [] key = <<"B", "r">> -> "#A62929"
      [] key = <<"B">> -> "#FFB5B5"
      [] OTHER -> "undefined"

\* a || b on table entries: a colour string is truthy, undefined is not
OrElse(a, b) == IF a # "undefined" THEN a ELSE b

getAtomColor(el) ==
    OrElse(ATOM_COLORS(el),
           OrElse(ATOM_COLORS(UpperString(CharAt0(el)) \o Slice1(el)), DefaultColor))

\* ------------------------------------------------------------------------
\* The renderers and parseJSON applied to inputs of bounded size
\* ------------------------------------------------------------------------
\* atoms per atom list, bonds per bond list, pieces per response text
MaxAtoms == 2
MaxBonds == 2
MaxChunks == 3
\* letters per element symbol
MaxSymbolLen == 2

SeqsUpTo(S, n) == UNION {[1..k -> S] : k \in 0..n}

\* 2D atoms (ids as PubChem gives them, not indices) and bonds of every
\* order, with both ends, only the first or only the second among the ids
Nodes2D == {[id |-> 0, element |-> "C", x |-> 10, y |-> 10],
            [id |-> 7, element |-> "O", x |-> 30, y |-> 10]}
Orders == 0..5
Bonds2D ==
    {[from |-> e[1], to |-> e[2], order |-> o] :
        e \in {<<0, 7>>, <<0, 9>>, <<9, 7>>}, o \in Orders}

\* 3D atoms on the line through the origin and (2, 3, 6), and bonds by
\* index, -1 and 2 among the indices
Points3D == {[element |-> "C", x |-> 0, y |-> 0, z |-> 0],
             [element |-> "H", x |-> 2, y |-> 3, z |-> 6],
             [element |-> "O", x |-> 6, y |-> 9, z |-> 18]}
BondEnds3D == {<<0, 1>>, <<1, 0>>, <<0, 0>>, <<0, 2>>, <<2, 0>>, <<1, -1>>}
BondChoices3D == {[from |-> e[1], to |-> e[2], order |-> 1] : e \in BondEnds3D}

Chunks == {FenceJson, Fence, Space, Prose, JsonNull, Doc({}), Doc({"mol1Valid", "mol2Valid"})}

\* element symbols of up to MaxSymbolLen letters, the empty one included
Symbols == SeqsUpTo(Letters, MaxSymbolLen)

NoJob == [kind |-> "none", nodes |-> <<>>, bonds |-> <<>>, official |-> FALSE,
          sd |-> SDUndefined, text |-> <<>>, el |-> <<>>]

Jobs2D ==
    {[NoJob EXCEPT !.kind = "bonds2D", !.nodes = ns, !.bonds = bs, !.official = off] :
        ns \in SeqsUpTo(Nodes2D, MaxAtoms), bs \in SeqsUpTo(Bonds2D, MaxBonds),
        off \in BOOLEAN}

Scenes3D ==
    {SDUndefined} \cup
    {[defined |-> TRUE, atoms |-> as, bonds |-> bs, structure2D |-> NoLayout] :
        as \in SeqsUpTo(Points3D, MaxAtoms), bs \in SeqsUpTo(BondChoices3D, MaxBonds)}

Jobs3D == {[NoJob EXCEPT !.kind = "scene3D", !.sd = sd] : sd \in Scenes3D}

JobsText == {[NoJob EXCEPT !.kind = "parseJSON", !.text = t] : t \in SeqsUpTo(Chunks, MaxChunks)}

JobsColor == {[NoJob EXCEPT !.kind = "atomColor", !.el = el] : el \in Symbols}

NoResult == [threw |-> FALSE, groups |-> <<>>, scale |-> <<1, 1>>, positions |-> <<>>,
             spheres |-> <<>>, cylinders |-> <<>>, value |-> NoData, color |-> ""]

VARIABLES
    job,      \* the input handed to a renderer or to parseJSON
    done,     \* it has run
    output    \* what it produced

funVars == <<job, done, output>>

InitIdle == job = NoJob /\ done = FALSE /\ output = NoResult

\* what a render of MoleculeStructure3D leaves: the scene and the positions
\* of the nodes
Rendered3D(r, ns) ==
    [NoResult EXCEPT !.threw = r.threw, !.scale = r.scale,
                     !.positions = [i \in 1..Len(ns) |-> ns[i].pos],
                     !.spheres = r.spheres, !.cylinders = r.cylinders]

\* the BONDS block of MoleculeStructure2D is evaluated
DrawBonds2D ==
    /\ job.kind = "bonds2D" /\ ~done
    /\ done' = TRUE
    /\ output' = LET r == RenderBonds(job.nodes, job.bonds, job.official)
                 IN [NoResult EXCEPT !.threw = r.threw, !.groups = r.groups]
    /\ UNCHANGED job

\* MoleculeStructure3D is rendered
DrawScene3D ==
    /\ job.kind = "scene3D" /\ ~done
    /\ done' = TRUE
    /\ output' = Rendered3D(BuildScene3D(job.sd), SceneLists(job.sd).nodes)
    /\ UNCHANGED job

\* a service hands response.text to parseJSON
ParseText ==
    /\ job.kind = "parseJSON" /\ ~done
    /\ done' = TRUE
    /\ output' = LET r == parseJSON(job.text)
                 IN [NoResult EXCEPT !.threw = r.threw, !.value = r.value]
    /\ UNCHANGED job

\* an atom is coloured (3D node list, 2D atom circle)
ColorAtom ==
    /\ job.kind = "atomColor" /\ ~done
    /\ done' = TRUE
    /\ output' = [NoResult EXCEPT !.color = getAtomColor(job.el)]
    /\ UNCHANGED job

NextFun ==
    \/ DrawBonds2D
    \/ DrawScene3D
    \/ ParseText
    \/ ColorAtom

\* ------------------------------------------------------------------------
\* Specifications
\* ------------------------------------------------------------------------
vars == <<viewerVars, appVars, funVars>>

Init == InitViewer /\ InitApp /\ InitIdle

\* the viewer with its data sources: view switch, prop changes, fetches
Next == NextData /\ UNCHANGED <<appVars, funVars>>

Spec == Init /\ [][Next]_vars

\* the viewport controller of a viewer that is given no molecule name to
\* look up: view switch and the pointer, wheel and button handlers
InitViewport == Init /\ moleculeName = ""

NextView ==
    /\ \/ ShowView2D
       \/ ShowView3D
       \/ NextViewport
    /\ UNCHANGED <<appVars, funVars>>

SpecViewport == InitViewport /\ [][NextView]_vars

\* the viewer with its data sources and its viewport controller together,
\* for runs of at most MaxEvents fetches and gestures
MaxEvents == 2

NextInteractive ==
    /\ \/ NextData
       \/ NextViewport
    /\ issued' + scaleOps' + panOps' <= MaxEvents
    /\ UNCHANGED <<appVars, funVars>>

SpecInteractive == Init /\ [][NextInteractive]_vars

\* the application shell with the three analysis components
NextAnalysis == NextApp /\ UNCHANGED <<viewerVars, funVars>>

\* the viewer is not on display: no molecule name, no structure
InitAnalysis == Init /\ moleculeName = "" /\ structureData = SDUndefined

SpecApp == InitAnalysis /\ [][NextAnalysis]_vars

\* the same for at most MaxSettlingRuns runs, with every awaited service
\* call settling (it resolves or rejects) sooner or later
MaxSettlingRuns == 1

NextSettling == NextAnalysis /\ runs' <= MaxSettlingRuns

CallSettles ==
    /\ \/ \E c \in calls : \E o \in Outcomes(ImageFull) : ImageAnalyzeDone(c, o)
       \/ \E c \in calls : \E o \in Outcomes(TextFull) : TextAnalyzeDone(c, o)
       \/ \E c \in calls : \E v \in Validations : CompareValidated(c, v)
       \/ \E c \in calls : \E o \in Outcomes(ComparisonFull) : CompareDone(c, o)
    /\ UNCHANGED <<viewerVars, funVars>>

SpecAppSettling == InitAnalysis /\ [][NextSettling]_vars /\ WF_vars(CallSettles)

\* the renderers and parseJSON on their own, each on one input
InitFunctions ==
    /\ InitViewer /\ moleculeName = "" /\ structureData = SDUndefined
    /\ InitApp
    /\ job \in Jobs2D \cup Jobs3D \cup JobsText \cup JobsColor
    /\ done = FALSE
    /\ output = NoResult

NextFunctions == NextFun /\ UNCHANGED <<viewerVars, appVars>>

SpecFunctions == InitFunctions /\ [][NextFunctions]_vars

TypeOK ==
    /\ viewMode \in {"3D", "2D"}
    /\ moleculeName \in MoleculeNames
    /\ structureData \in Structures
    /\ isLoadingPubChem \in BOOLEAN
    /\ issued \in 0..MaxFetches
    /\ scaleOps \in 0..MaxScaleOps
    /\ panOps \in 0..MaxPanOps
    /\ activeTab \in Tabs
    /\ crashed \in BOOLEAN
    /\ runs \in 0..MaxRuns
    /\ Len(history) <= runs

\* ------------------------------------------------------------------------
\* Properties of the viewer
\* ------------------------------------------------------------------------
ExternalPopulated == pubChemData.present /\ Len(pubChemData.atoms) > 0
Model2DPopulated ==
    structureData.defined /\ structureData.structure2D.present
        /\ Len(structureData.structure2D.atoms) > 0
Atoms3DPopulated == structureData.defined /\ Len(structureData.atoms) > 0

\* C1: while a 2D view shows molecule B, the stored external data is absent
\* or the result of the most recently issued fetch, which is the one for B;
\* the late result of a superseded fetch for an earlier name is never stored.
C1_StaleResultNeverStored ==
    (viewMode = "2D" /\ moleculeName # "" /\ pubChemData.present)
        => (pubChemSrc.name = moleculeName /\ pubChemSrc.id = issued)

\* C2: the viewport scale k stays within [0.5, 5] in every reachable state.
C2_ScaleInRange ==
    /\ RLeq(ScaleMin, transform.k)
    /\ RLeq(transform.k, ScaleMax)

\* the scale sits on the upper limit after at least two scale gestures
C2_Witness == scaleOps >= 2 /\ transform.k = ScaleMax

C4_EmptyExternalSkipped ==
    (pubChemData.present /\ Len(pubChemData.atoms) = 0)
        => /\ Model2DPopulated => Resolved.nodes = structureData.structure2D.atoms
           /\ (~Model2DPopulated /\ Atoms3DPopulated)
                 => (Resolved.isFallback /\ Len(Resolved.nodes) = Len(structureData.atoms))
           /\ Len(Resolved.nodes) = 0 => (~Model2DPopulated /\ ~Atoms3DPopulated)

\* the fetch issued last, which is the one for the name on display, has
\* completed without storing data
CurrentFetchFailed ==
    /\ viewMode = "2D"
    /\ moleculeName # ""
    /\ lastFetch.id = issued
    /\ lastFetch.name = moleculeName
    /\ lastFetch.kind \in FailureKinds

\* C5: after the fetch for the current name has failed the external data is
\* absent and the resolver serves the model 2D layout if it has atoms, else
\* the 3D projection.
C5_FailedFetchFallsBack ==
    CurrentFetchFailed
        => /\ ~pubChemData.present
           /\ ~isLoadingPubChem
           /\ Model2DPopulated => Resolved.nodes = structureData.structure2D.atoms
           /\ (~Model2DPopulated /\ Atoms3DPopulated) => Resolved.isFallback

\* ------------------------------------------------------------------------
\* Properties of the analysis components
\* ------------------------------------------------------------------------
\* the run of the mounted component that finished last ended this way, and
\* nothing has been done to the component since
JustFinished(result) == ~crashed /\ lastRun.result = result

\* the inline error message the component shows; TextAnalysis keeps no
\* error state and renders no error element
ErrorShown(comp) ==
    CASE comp = "IMAGE" -> img.error
      [] comp = "COMPARISON" -> cmp.error
      [] OTHER -> NoError

DataOf(comp) ==
    CASE comp = "IMAGE" -> img.data
      [] comp = "COMPARISON" -> cmp.data
      [] OTHER -> txt.data

NotRecognized(input) ==
    "\"" \o input \o "\" is not a recognized molecule or valid structure format."

\* C6: a comparison request is issued only after the validation call has
\* returned with both inputs marked valid; a run whose validation marked an
\* input invalid never issues one.
C6_CompareOnlyAfterValid ==
    /\ \A c \in calls :
          c.stage = "compare"
             => (c.comp = "COMPARISON" /\ c.mol1Valid = "true" /\ c.mol2Valid = "true")
    /\ lastRun.compared => (lastRun.mol1Valid = "true" /\ lastRun.mol2Valid = "true")
    /\ lastRun.result = "rejected" => ~lastRun.compared

\* a run was rejected by the validation, with input 2 marked invalid, while
\* the comparison request of an earlier run is still awaited
C6_Witness ==
    /\ lastRun.result = "rejected"
    /\ lastRun.mol1Valid = "true" /\ lastRun.mol2Valid = "false"
    /\ \E c \in calls : c.stage = "compare"

OnlyFirstInvalid(click) == click.mol1Valid # "true" /\ click.mol2Valid = "true"
OnlySecondInvalid(click) == click.mol1Valid = "true" /\ click.mol2Valid # "true"

\* C7 as stated: with exactly one input marked invalid the error shown is
\* '"<that input>" is not a recognized molecule or valid structure format.'
C7_MessageIsBareSentence ==
    (JustFinished("rejected") /\ lastRun.comp = "COMPARISON")
        => /\ OnlyFirstInvalid(lastRun)
                => cmp.error = Err(NotRecognized(lastRun.mol1))
           /\ OnlySecondInvalid(lastRun)
                => cmp.error = Err(NotRecognized(lastRun.mol2))

\* C7 amended: with exactly one input marked invalid the error shown is
\* 'Invalid Input: ' followed by '"<that input>" is not a recognized molecule
\* or valid structure format.', <that input> being the submitted text of the
\* input that failed.
C7_MessageNamesFailedInput ==
    (JustFinished("rejected") /\ lastRun.comp = "COMPARISON")
        => /\ OnlyFirstInvalid(lastRun)
                => cmp.error = Err("Invalid Input: " \o NotRecognized(lastRun.mol1))
           /\ OnlySecondInvalid(lastRun)
                => cmp.error = Err("Invalid Input: " \o NotRecognized(lastRun.mol2))

\* ("aspirin", "xyz123notamolecule") was submitted and only input 2 failed
C7_Witness ==
    /\ JustFinished("rejected")
    /\ lastRun.mol1 = "aspirin"
    /\ lastRun.mol2 = "xyz123notamolecule"
    /\ OnlySecondInvalid(lastRun)
    /\ ~cmp.loading

\* C8: a result that is the empty object (unparseable response text) is
\* rendered as empty / placeholder sections; no render raises an error.
C8_EmptyResultRenders ==
    (lastRun.result = "success" /\ lastRun.emptyResult) => ~crashed

\* C9: after an upstream failure of image analysis, text analysis or
\* comparison the component shows an inline error message, which is the
\* failure's reason when it has one.
C9_FailureSetsError ==
    JustFinished("failed")
        => /\ ~ErrorShown(lastRun.comp).null
           /\ lastRun.reason # ""
                => ErrorShown(lastRun.comp).msg = lastRun.reason

\* C10: after an upstream failure the component's result data is null.
C10_FailureClearsData ==
    JustFinished("failed") => DataOf(lastRun.comp).null

\* C25: every started image analysis, text analysis or comparison
\* eventually leaves its component with loading = false, provided the
\* pending service call resolves or rejects: on success, on a thrown
\* failure, and when validation rejects the comparison inputs.
C25_LoadingEnds ==
    (img.loading \/ txt.loading \/ cmp.loading)
        ~> (~img.loading /\ ~txt.loading /\ ~cmp.loading)

\* a comparison that validation rejected has ended and the component is
\* not loading
C25_Witness ==
    /\ Mounted("COMPARISON") /\ lastRun.comp = "COMPARISON" /\ lastRun.result = "rejected"
    /\ ~cmp.loading /\ calls = {} /\ runs >= 1

\* a run of the mounted component ends on this step with the given result
RunEnds(result) == lastRun' # lastRun /\ lastRun'.result = result

\* C26: the session history grows by exactly one entry, placed at the
\* front, for each image analysis, text analysis or comparison whose
\* service call returns; a failed call or a validation-rejected comparison
\* adds nothing; no operation removes or reorders existing entries.
C26_HistoryGrowsAtFront ==
    [][/\ history' # history => (Len(history') = Len(history) + 1 /\ Tail(history') = history)
       /\ RunEnds("success") => Len(history') = Len(history) + 1
       /\ (RunEnds("failed") \/ RunEnds("rejected")) => history' = history]_vars

\* C27: in the comparison engine the error message and the comparison
\* result are never both set: in every reachable state at most one of error
\* and data is non-null, and a run rejected by validation leaves data null.
C27_ErrorAndDataExclusive ==
    /\ cmp.error.null \/ cmp.data.null
    /\ (lastRun.comp = "COMPARISON" /\ lastRun.result = "rejected") => cmp.data.null

\* a second comparison on the same component has been rejected by
\* validation after the first one had produced a result
C27_Witness ==
    /\ Mounted("COMPARISON") /\ lastRun.id = 2 /\ lastRun.result = "rejected"
    /\ ~cmp.error.null
    /\ Len(history) = 1 /\ history[1] = [type |-> "COMPARISON", run |-> 1]

\* the flags read from what parseJSON makes of a response that is not JSON
UnparsedFlag(field) ==
    IF field \in parseJSON(<<Prose>>).value.fields THEN "true" ELSE "undefined"
Unparsed(run) ==
    /\ run.comp = "COMPARISON"
    /\ run.mol1Valid = UnparsedFlag("mol1Valid")
    /\ run.mol2Valid = UnparsedFlag("mol2Valid")

\* C29: if the validation call's response cannot be parsed (the validation
\* result is an empty object with neither validity flag set), the comparison
\* engine issues no comparison request, sets an 'Invalid Input' error
\* stating that both inputs are not recognized, and ends with
\* loading = false and data = null.
C29_UnparsedValidationRejects ==
    /\ \A c \in calls : ~(Unparsed(c) /\ c.stage = "compare")
    /\ (~crashed /\ Unparsed(lastRun))
          => /\ lastRun.result = "rejected" /\ ~lastRun.compared
             /\ cmp.error =
                  Err("Invalid Input: Both inputs are not recognized as valid chemical entities.")
             /\ ~cmp.loading
             /\ cmp.data.null

\* a comparison has ended on a validation result without flags
C29_Witness ==
    /\ Mounted("COMPARISON") /\ Unparsed(lastRun) /\ lastRun.result = "rejected"
    /\ lastRun.mol1 = "aspirin" /\ lastRun.mol2 = "xyz123notamolecule"
    /\ ~cmp.error.null

\* the mounted component lacks an input its trigger needs
MissingInput ==
    \/ Mounted("IMAGE") /\ img.file = NoFile
    \/ Mounted("TEXT") /\ Trim(txt.text) = ""
    \/ Mounted("COMPARISON") /\ (Trim(cmp.mol1) = "" \/ Trim(cmp.mol2) = "")

\* a step that is neither a tab switch, nor an edit of an input, nor the
\* settling of an awaited call: all that is left is a trigger
TriggerOnly ==
    /\ activeTab' = activeTab
    /\ calls \subseteq calls'
    /\ img'.file = img.file /\ txt'.text = txt.text
    /\ cmp'.mol1 = cmp.mol1 /\ cmp'.mol2 = cmp.mol2

\* C30: a trigger with missing input is a no-op: handleCompare with either
\* molecule input empty or whitespace-only, text handleAnalyze with empty
\* or whitespace-only text, and image handleAnalyze with no file selected
\* issue no service request and leave loading, error, data and history
\* unchanged.
C30_MissingInputNoOp ==
    [][(MissingInput /\ TriggerOnly)
          => /\ calls' = calls /\ runs' = runs
             /\ img' = img /\ txt' = txt /\ cmp' = cmp
             /\ history' = history]_vars

\* the result of a comparison is on display and the second input has been
\* replaced by white space: the trigger finds an input missing
C30_Witness ==
    /\ Mounted("COMPARISON") /\ ~cmp.loading
    /\ cmp.mol1 = "aspirin" /\ cmp.mol2 = " "
    /\ ~cmp.data.null /\ Len(history) >= 1

\* ------------------------------------------------------------------------
\* Properties of the renderers and of parseJSON
\* ------------------------------------------------------------------------
Drawn2D == job.kind = "bonds2D" /\ done
Drawn3D == job.kind = "scene3D" /\ done
Parsed == job.kind = "parseJSON" /\ done

\* some atom of the chosen list has this id
HasId(nodes, id) == \E k \in 1..Len(nodes) : nodes[k].id = id
Dangling2D(nodes, bond) == ~HasId(nodes, bond.from) \/ ~HasId(nodes, bond.to)

\* C11: a bond of the 2D view with an end that is no atom's id gives no
\* stroke and no error, whatever its order and the data source; every
\* other bond of the list is drawn.
C11_DanglingBondSkipped2D ==
    Drawn2D =>
        /\ ~output.threw
        /\ Len(output.groups) = Len(job.bonds)
        /\ \A i \in 1..Len(job.bonds) :
              IF Dangling2D(job.nodes, job.bonds[i])
              THEN output.groups[i] = <<>>
              ELSE Len(output.groups[i]) >= 1

\* a dangling bond of order 3 before a bond with both ends, PubChem data
C11_Witness ==
    /\ Drawn2D /\ job.official
    /\ Len(job.bonds) = 2
    /\ Dangling2D(job.nodes, job.bonds[1]) /\ job.bonds[1].order = 3
    /\ ~Dangling2D(job.nodes, job.bonds[2])
    /\ Len(output.groups[2]) >= 1

Solid(s) == ~s.dashed /\ s.opacity = 100

\* C13: with both ends present the 2D renderer emits one solid stroke for
\* order 1, two strokes (fill, then a gap in the background colour) for
\* order 2, three strokes for order 3, one dashed stroke and one solid
\* stroke of reduced opacity for order 4, and a single stroke for every
\* other order.
C13_StrokesPerOrder ==
    Drawn2D =>
        \A i \in 1..Len(job.bonds) :
           ~Dangling2D(job.nodes, job.bonds[i]) =>
              LET g == output.groups[i]
                  o == job.bonds[i].order
              IN /\ o = 1 => (Len(g) = 1 /\ Solid(g[1]) /\ g[1].stroke = BondColor)
                 /\ o = 2 => /\ Len(g) = 2
                             /\ g[1].stroke = BondColor /\ g[2].stroke = BackgroundColor
                             /\ g[2].width < g[1].width
                 /\ o = 3 => Len(g) = 3
                 /\ o = 4 => /\ Len(g) = 2
                             /\ g[1].dashed /\ g[1].opacity = 100
                             /\ ~g[2].dashed /\ g[2].opacity < 100
                 /\ o \notin 1..4 => Len(g) = 1

\* an aromatic bond and a double bond between present atoms were drawn
C13_Witness ==
    /\ Drawn2D
    /\ Len(job.bonds) = 2
    /\ job.bonds[1].order = 4 /\ job.bonds[2].order = 2
    /\ Len(output.groups[1]) = 2 /\ Len(output.groups[2]) = 2

\* the bond's ends are indices of the 3D atom list
InRange3D(atoms, bond) ==
    /\ bond.from \in 0..(Len(atoms) - 1)
    /\ bond.to \in 0..(Len(atoms) - 1)

\* C12: the 3D scene builder skips a bond with an end outside the atom
\* list: no cylinder for it, a cylinder for each other bond, and no error.
C12_DanglingBondSkipped3D ==
    Drawn3D =>
        /\ ~output.threw
        /\ Len(job.sd.atoms) > 0 =>
              Len(output.cylinders) =
                 Cardinality({i \in 1..Len(job.sd.bonds) : InRange3D(job.sd.atoms, job.sd.bonds[i])})

RECURSIVE VectorSum(_, _)
VectorSum(ps, i) == IF i = 0 THEN ZeroVector ELSE VAdd(VectorSum(ps, i - 1), ps[i])

Coincident(atoms) ==
    \A i, j \in 1..Len(atoms) : Vector3(atoms[i]) = Vector3(atoms[j])

\* C14: for a non-empty atom list the normalizer's positions are the
\* originals moved by one vector and scaled by scale, with centroid at the
\* origin; atoms not all coincident: the largest distance from the origin
\* is 5.5; all coincident: scale = 1 and every position is the origin.
C14_NormalizerOutput ==
    (Drawn3D /\ Len(job.sd.atoms) > 0) =>
        LET atoms == job.sd.atoms
            ps == output.positions
            n == Len(atoms)
        IN /\ Len(ps) = n
           /\ VectorSum(ps, n) = ZeroVector
           /\ \A i, j \in 1..n :
                 VSub(ps[i], ps[j]) =
                    MultiplyScalar(VSub(Vector3(atoms[i]), Vector3(atoms[j])), output.scale)
           /\ IF Coincident(atoms)
              THEN output.scale = <<1, 1>> /\ \A i \in 1..n : ps[i] = ZeroVector
              ELSE /\ \E i \in 1..n : LengthSq(ps[i]) = RMul(TargetRadius, TargetRadius)
                   /\ \A i \in 1..n : RLeq(LengthSq(ps[i]), RMul(TargetRadius, TargetRadius))

\* two atoms at different places were normalized
C14_Witness ==
    /\ Drawn3D
    /\ Len(job.sd.atoms) = 2
    /\ ~Coincident(job.sd.atoms)
    /\ output.scale # <<1, 1>>
    /\ Len(output.positions) = 2

IsDoc(c) == c.kind \in {"object", "null"}
DocValue(c) == IF c.kind = "null" THEN NoData ELSE Obj(c.fields)

\* C17: parseJSON throws for no text; a text that is one JSON document
\* with nothing but fence markers and white space around it gives the
\* document's value, every other text gives the empty object.
C17_ParseJSONTotal ==
    Parsed =>
        /\ ~output.threw
        /\ \A k \in 1..Len(job.text) :
              (IsDoc(job.text[k]) /\ \A m \in 1..Len(job.text) :
                                        m # k => job.text[m].kind \in {"fence-json", "fence", " "})
                 => output.value = DocValue(job.text[k])
        /\ (\A k \in 1..Len(job.text) :
               ~IsDoc(job.text[k]) \/ \E m \in 1..Len(job.text) :
                                         m # k /\ job.text[m].kind \notin {"fence-json", "fence", " "})
              => output.value = Obj({})

\* a fenced object was parsed
C17_Witness ==
    /\ Parsed
    /\ job.text = <<FenceJson, Doc({"mol1Valid", "mol2Valid"}), Fence>>
    /\ output.value = Obj({"mol1Valid", "mol2Valid"})

\* the symbol in lower case, as a case-insensitive match compares it
ToLowerCase(ch) ==
    CASE ch = "C" -> "c" [] ch = "L" -> "l" [] ch = "B" -> "b" [] ch = "R" -> "r"
      [] ch = "H" -> "h" [] ch = "E" -> "e" [] ch = "O" -> "o" [] OTHER -> ch
LowerString(s) == [i \in 1..Len(s) |-> ToLowerCase(s[i])]
ListedKeys == {<<"H">>, <<"C">>, <<"O">>, <<"C", "l">>, <<"B", "r">>, <<"B">>}
Colored == job.kind = "atomColor" /\ done

\* C21: getAtomColor matches element symbols case-insensitively: every
\* upper/lower-case spelling of a listed element's symbol gets that
\* element's table colour, and every symbol of an unlisted element gets the
\* default colour.
C21_ColorCaseInsensitive ==
    Colored =>
        /\ \A k \in ListedKeys :
              LowerString(job.el) = LowerString(k) => output.color = ATOM_COLORS(k)
        /\ (\A k \in ListedKeys : LowerString(job.el) # LowerString(k))
              => output.color = DefaultColor

\* ------------------------------------------------------------------------
\* Properties of the fetch lifecycle
\* ------------------------------------------------------------------------
\* C15: when the name shown by a mounted 2D view changes, also to the empty
\* name, the stored external data becomes absent, so that the data of the
\* previous name is not the source selected for the new one, and for a
\* non-empty new name a fetch for it is issued.
C15_NameChangeDiscardsData ==
    [][(viewMode = "2D" /\ viewMode' = "2D" /\ moleculeName' # moleculeName)
          => /\ ~pubChemData'.present
             /\ Resolve(pubChemData', structureData').isOfficial = FALSE
             /\ moleculeName' # ""
                  => \E f \in fetches' \ fetches : f.name = moleculeName' /\ f.live]_vars

\* C16: once the fetch for the displayed name has failed, no fetch is
\* issued while the name stays the same, whatever else the user does
\* (switching between the 3D and the 2D view included).
C16_NoRetryForFailedName ==
    [][(failedFor # "" /\ failedFor = moleculeName /\ moleculeName' = moleculeName)
          => issued' = issued]_vars

\* ------------------------------------------------------------------------
\* Properties of the viewport controller
\* ------------------------------------------------------------------------
SameOffsets == transform'.x = transform.x /\ transform'.y = transform.y

\* a step taken by the scale handler named op
ScaleStep(op) == scaleOps' = scaleOps + 1 /\ lastOp' = op

\* C18: zoom-in sets k to min(k * 1.2, 5), zoom-out sets k to
\* max(k / 1.2, 0.5); zoom-in, zoom-out and wheel leave x and y as they
\* are; a drag-move leaves k as it is.
C18_ZoomAndDragFrames ==
    [][/\ ScaleStep("zoomIn")
            => /\ transform'.k = (IF RLeq(RMul(transform.k, <<6, 5>>), <<5, 1>>)
                                  THEN RMul(transform.k, <<6, 5>>) ELSE <<5, 1>>)
               /\ SameOffsets
       /\ ScaleStep("zoomOut")
            => /\ transform'.k = (IF RLeq(<<1, 2>>, RDiv(transform.k, <<6, 5>>))
                                  THEN RDiv(transform.k, <<6, 5>>) ELSE <<1, 2>>)
               /\ SameOffsets
       /\ ScaleStep("wheel") => SameOffsets
       /\ (lastOp' = "mouseMove" /\ viewMode = "2D") => transform'.k = transform.k]_vars

\* a zoom-in has hit the upper limit on a view that was panned before
C18_Witness ==
    /\ lastOp = "zoomIn"
    /\ transform.k = ScaleMax
    /\ transform.x # 0
    /\ panOps >= 1

\* C19: a drag-start at p0 with offset o0 records p0 - o0, so that every
\* later drag-move at p sets the offset to o0 + (p - p0) = p - (p0 - o0);
\* a pointer move while no drag is active leaves the transform as it is.
C19_DragFollowsPointer ==
    [][/\ \A p \in Pointers :
             handleMouseDown(p.x, p.y)
                => /\ isDragging'
                   /\ startPan' = [x |-> p.x - transform.x, y |-> p.y - transform.y]
       /\ \A p \in Pointers :
             handleMouseMove(p.x, p.y)
                => IF isDragging
                   THEN /\ transform'.x = p.x - startPan.x
                        /\ transform'.y = p.y - startPan.y
                        /\ transform'.k = transform.k
                   ELSE transform' = transform]_vars

\* C20: reset makes the transform {k: 1, x: 0, y: 0} from every state,
\* dragging or not: whenever reset is the handler that ran last, the
\* transform is the identity.
C20_ResetRestoresIdentity ==
    lastOp = "reset"
        => (transform.k = <<1, 1>> /\ transform.x = 0 /\ transform.y = 0)

\* reset has run during a drag, after scale gestures
C20_Witness ==
    /\ lastOp = "reset"
    /\ isDragging
    /\ startPan # ZeroPan
    /\ scaleOps >= 2
    /\ transform = IdentityTransform


\* C24: each wheel event changes k by -deltaY * 0.001 relative to the k
\* that all previously handled zoom-in, zoom-out, wheel and reset operations
\* produced, then clamps to [0.5, 5], also when several such events are
\* handled before the component re-renders: no earlier scale update is
\* lost or overwritten.
C24_WheelBuildsOnCurrentScale ==
    [][ScaleStep("wheel")
          => \E deltaY \in WheelDeltas :
                transform'.k = Clamp(RAdd(transform.k, RMul(<<-deltaY, 1>>, WheelFactor)))]_vars

\* ------------------------------------------------------------------------
\* Properties of the viewer with fetches and gestures interleaved
\* ------------------------------------------------------------------------
FetchIssued == issued' = issued + 1
FetchCompleted == \E f \in fetches : fetches' = fetches \ {f}
PropsChanged == moleculeName' # moleculeName \/ structureData' # structureData

\* C22: the viewport transform is changed only by the user's pointer,
\* wheel and button operations: a step that issues a structure fetch, a
\* step on which a fetch completes (with data or with a failure) and a
\* change of molecule name or structure data leave k, x and y unchanged.
C22_TransformIndependentOfData ==
    [][(FetchIssued \/ FetchCompleted \/ PropsChanged) => transform' = transform]_vars

\* a fetch has come back with data on a view that is panned away from the
\* identity transform
C22_Witness ==
    /\ viewMode = "2D"
    /\ transform.x # 0 /\ panOps >= 1
    /\ pubChemData.present /\ pubChemSrc.id = issued /\ issued >= 1

\* the latest fetch was issued for the displayed name and has not come back
FetchOutstanding ==
    viewMode = "2D" /\ \E f \in fetches : f.live /\ f.id = issued /\ f.name = moleculeName

\* what the resolver selects without external data
Fallback == Resolve(NoLayout, structureData)

\* what zoom, wheel, drag and reset do to the transform
GesturesTakeEffect ==
    /\ ScaleStep("zoomIn") => transform'.k = RMin(RMul(transform.k, ZoomStep), ScaleMax)
    /\ ScaleStep("zoomOut") => transform'.k = RMax(RDiv(transform.k, ZoomStep), ScaleMin)
    /\ ScaleStep("wheel")
          => \E d \in WheelDeltas : transform'.k = WheelScale(seenTransform.k, d)
    /\ (lastOp' = "mouseMove" /\ lastOp = "mouseDown")
          => \E p \in Pointers : /\ transform'.x = p.x - startPan.x
                                 /\ transform'.y = p.y - startPan.y
    /\ (lastOp' = "reset" /\ lastOp # "reset") => transform' = IdentityTransform

\* C23: the structure fetch is non-blocking: in every state where the fetch
\* for the current molecule name is outstanding, the resolver selects the
\* model 2D layout if non-empty, else the 3D projection, and zoom, wheel,
\* drag and reset remain enabled (the controls are shown whenever that
\* source has atoms) and take effect.
C23_FetchNonBlocking ==
    [][/\ FetchOutstanding' =>
             /\ Resolved' = Fallback'
             /\ Len(Fallback'.nodes) > 0 => ControlsShown'
       /\ FetchOutstanding => GesturesTakeEffect]_vars

\* C28: the loading flag of the 2D viewer is true in every state where a
\* structure fetch for the current molecule name is outstanding and false
\* once no fetch is outstanding; the completion of a superseded fetch for
\* an earlier name does not clear the flag while the fetch of the current
\* name is still in flight.
C28_LoadingFlagTracksFetch ==
    /\ FetchOutstanding => isLoadingPubChem
    /\ (\A f \in fetches : ~f.live) => ~isLoadingPubChem
====
